---- MODULE Spec2Model ----
(***************************************************************************)
(* The in-memory communication matrix of commatrix (package types) and its *)
(* operations: dedupe, sort, combine, diff reporting, role partitioning,   *)
(* export and node-role resolution.                                        *)
(*                                                                         *)
(* A Go string is a sequence of symbols.  NodeRole and Protocol are spelt  *)
(* character by character, because the code formats them into keys and     *)
(* compares them bytewise.  A Go slice is a record [arr, len]: arr is the  *)
(* backing array (its length is the capacity), len the visible length.     *)
(***************************************************************************)
EXTENDS Integers, Sequences, FiniteSets, TLC

VARIABLES mA, mB, op, pre, out, format, deployment, files, labels

vars == <<mA, mB, op, pre, out, format, deployment, files, labels>>

(* ------------------------------ bounds -------------------------------- *)

\* longest matrix drawn in the single-matrix specification
MaxLen == 3
\* longest matrix drawn in the two-matrix specification
MaxLenPair == 2
\* spare capacity the receiver's slice may start with
MaxSlack == 1
\* longest matrix drawn in the export specification
MaxLenExport == 2

(* ------------------------------ strings ------------------------------- *)

\* the characters used, in ascending byte order
Alphabet ==
    << "-", "0", "1", "2", "3", "4", "5", "6", "7", "8", "9",
       "C", "D", "P", "T", "U",
       "a", "e", "k", "m", "o", "r", "s", "t", "w" >>

Code(c) == CHOOSE i \in 1..Len(Alphabet) : Alphabet[i] = c

RECURSIVE CompareString(_, _)
\* cmp.Compare on two strings: -1, 0 or +1, bytewise lexicographic
CompareString(a, b) ==
    IF a = <<>> /\ b = <<>> THEN 0
    ELSE IF a = <<>> THEN -1
    ELSE IF b = <<>> THEN 1
    ELSE IF Code(Head(a)) < Code(Head(b)) THEN -1
    ELSE IF Code(Head(a)) > Code(Head(b)) THEN 1
    ELSE CompareString(Tail(a), Tail(b))

\* cmp.Compare on two ints
CompareInt(a, b) == IF a < b THEN -1 ELSE IF a > b THEN 1 ELSE 0

Digits == << "0", "1", "2", "3", "4", "5", "6", "7", "8", "9" >>

RECURSIVE FormatNat(_)
FormatNat(n) ==
    IF n < 10 THEN << Digits[n + 1] >>
    ELSE FormatNat(n \div 10) \o << Digits[(n % 10) + 1] >>

\* the %d verb
FormatInt(n) == IF n < 0 THEN << "-" >> \o FormatNat(0 - n) ELSE FormatNat(n)

\* the %v verb on a bool
FormatBool(b) == IF b THEN << "true" >> ELSE << "false" >>

(* ------------------------------ records ------------------------------- *)

master == << "m", "a", "s", "t", "e", "r" >>
worker == << "w", "o", "r", "k", "e", "r" >>
TCP == << "T", "C", "P" >>
UDP == << "U", "D", "P" >>

ComDetails(role, proto, port, svc) ==
    [ Direction |-> << "Ingress" >>,
      Protocol  |-> proto,
      Port      |-> port,
      Namespace |-> << "ns" >>,
      Service   |-> svc,
      Pod       |-> << "pod" >>,
      Container |-> << "ctr" >>,
      NodeRole  |-> role,
      Optional  |-> FALSE ]

\* the zero value of the struct, which fills unused capacity
ZeroComDetails ==
    [ Direction |-> <<>>, Protocol |-> <<>>, Port |-> 0, Namespace |-> <<>>,
      Service |-> <<>>, Pod |-> <<>>, Container |-> <<>>, NodeRole |-> <<>>,
      Optional |-> FALSE ]

\* the records the matrices are drawn from
Records ==
    { ComDetails(master, TCP, 22, << "sshd" >>),
      ComDetails(master, TCP, 22, << "dns" >>),
      ComDetails(master, TCP, 3, << "rpc.statd" >>),
      ComDetails(master, UDP, 3, << "dns" >>),
      ComDetails(worker, UDP, 3, << "dns" >>),
      ComDetails(<< "a", "-", "1" >>, TCP, 2, << "dns" >>),
      ComDetails(<< "a" >>, << "2", "-", "T", "C", "P" >>, 1, << "dns" >>) }

\* every sequence over S of length at most n
SeqsUpTo(S, n) == UNION { [1..k -> S] : k \in 0..n }

(* ------------------------------ slices -------------------------------- *)

RECURSIVE Zeros(_)
Zeros(n) == IF n <= 0 THEN <<>> ELSE << ZeroComDetails >> \o Zeros(n - 1)

\* a slice holding s, with `slack` unused elements of capacity
MakeSlice(s, slack) == [ arr |-> s \o Zeros(slack), len |-> Len(s) ]

\* the elements a slice shows: m.Matrix[0:len]
View(s) == SubSeq(s.arr, 1, s.len)

Cap(s) == Len(s.arr)

\* append(s, x): in place while capacity lasts, else into a new array of
\* doubled capacity (capacity 1 from capacity 0)
append(s, x) ==
    IF s.len < Cap(s)
    THEN [ arr |-> [ s.arr EXCEPT ![s.len + 1] = x ], len |-> s.len + 1 ]
    ELSE LET newcap == IF Cap(s) = 0 THEN 1 ELSE 2 * Cap(s)
         IN [ arr |-> View(s) \o << x >> \o Zeros(newcap - s.len - 1),
              len |-> s.len + 1 ]

(* --------------------------- identity, order -------------------------- *)

\* fmt.Sprintf("%s-%d-%s", cd.NodeRole, cd.Port, cd.Protocol)
strComDetail(cd) ==
    cd.NodeRole \o << "-" >> \o FormatInt(cd.Port) \o << "-" >> \o cd.Protocol

\* the identity of the data model: the triple (nodeRole, port, protocol)
EqualsFields(cd, other) ==
    /\ cd.NodeRole = other.NodeRole
    /\ cd.Port = other.Port
    /\ cd.Protocol = other.Protocol

Equals(cd, other) == strComDetail(cd) = strComDetail(other)

\* m.Contains(cd), m given by the elements it shows
Contains(m, cd) == \E i \in 1..Len(m) : Equals(m[i], cd)

\* ComDetails.String()
String(cd) ==
    cd.Direction \o << "," >> \o cd.Protocol \o << "," >> \o FormatInt(cd.Port)
    \o << "," >> \o cd.Namespace \o << "," >> \o cd.Service \o << "," >> \o cd.Pod
    \o << "," >> \o cd.Container \o << "," >> \o cd.NodeRole
    \o << "," >> \o FormatBool(cd.Optional)

\* a comparison that looks at the port before the protocol
cmpPortFirst(a, b) ==
    LET r == CompareString(a.NodeRole, b.NodeRole)
        p == CompareInt(a.Port, b.Port)
    IN IF r # 0 THEN r ELSE IF p # 0 THEN p
       ELSE CompareString(a.Protocol, b.Protocol)

\* the comparison function handed to slices.SortFunc
cmpComDetails(a, b) ==
    LET r == CompareString(a.NodeRole, b.NodeRole)
        p == CompareString(a.Protocol, b.Protocol)
    IN IF r # 0 THEN r ELSE IF p # 0 THEN p ELSE CompareInt(a.Port, b.Port)

RECURSIVE InsertSorted(_, _)
\* one pass of the insertion sort: x moves left past every element greater
\* than it, and stops at the first element not greater
InsertSorted(s, x) ==
    IF s = <<>> THEN << x >>
    ELSE IF cmpComDetails(x, s[Len(s)]) < 0
         THEN InsertSorted(SubSeq(s, 1, Len(s) - 1), x) \o << s[Len(s)] >>
         ELSE s \o << x >>

RECURSIVE SortFunc(_)
\* slices.SortFunc on a short slice: insertion sort
SortFunc(s) ==
    IF s = <<>> THEN <<>>
    ELSE InsertSorted(SortFunc(SubSeq(s, 1, Len(s) - 1)), s[Len(s)])

\* m.sort(): the visible elements are sorted inside the backing array
sort(s) ==
    [ arr |-> SortFunc(View(s)) \o SubSeq(s.arr, s.len + 1, Cap(s)), len |-> s.len ]

(* ----------------------------- Matrix Store --------------------------- *)

RECURSIVE deleteDuplicatesLoop(_, _, _, _)
deleteDuplicatesLoop(items, i, allKeys, res) ==
    IF i > Len(items) THEN res
    ELSE LET str == strComDetail(items[i])
         IN IF str \notin allKeys
            THEN deleteDuplicatesLoop(items, i + 1, allKeys \cup { str },
                                      append(res, items[i]))
            ELSE deleteDuplicatesLoop(items, i + 1, allKeys, res)

\* m.deleteDuplicates(): the slice m.Matrix is replaced by a new one
deleteDuplicates(m) == deleteDuplicatesLoop(View(m), 1, {}, MakeSlice(<<>>, 0))

\* m.CleanComDetails()
CleanComDetails(m) == sort(deleteDuplicates(m))

RECURSIVE combineLoop(_, _, _, _, _, _)
\* the loop of combine.  cur is combinedComDetails, marr the backing array of
\* m.Matrix, shared whether cur still lives in that array
combineLoop(m, other, i, cur, marr, shared) ==
    IF i > Len(other) THEN [ cur |-> cur, marr |-> marr, shared |-> shared ]
    ELSE IF Contains(View(m), other[i])
    THEN combineLoop(m, other, i + 1, cur, marr, shared)
    ELSE LET nxt == append(cur, other[i])
             inPlace == cur.len < Cap(cur)
         IN combineLoop(m, other, i + 1, nxt,
                        IF shared /\ inPlace THEN nxt.arr ELSE marr,
                        shared /\ inPlace)

\* m.combine(other): the combined matrix, and m as the call leaves it
combine(m, other) ==
    LET l == combineLoop(m, View(other), 1, m, m.arr, TRUE)
        sorted == sort(l.cur)
    IN [ combined |-> sorted,
         m |-> [ arr |-> IF l.shared THEN sorted.arr ELSE l.marr, len |-> m.len ] ]

\* a Go map: a function on the keys present
EmptyMap == [ k \in {} |-> 0 ]
MapPut(f, k, v) == [ x \in (DOMAIN f) \cup { k } |-> IF x = k THEN v ELSE f[x] ]
\* a lookup; a missing key yields the zero value
MapGet(f, k) == IF k \in DOMAIN f THEN f[k] ELSE 0

RECURSIVE markOwn(_, _, _, _)
\* first loop of markDiffBetweenMatrices, over m.Matrix
markOwn(m, other, i, signs) ==
    IF i > Len(m) THEN signs
    ELSE markOwn(m, other, i + 1,
                 MapPut(signs, String(m[i]),
                        IF Contains(other, m[i]) THEN 0 ELSE 1))

RECURSIVE markOther(_, _, _, _)
\* second loop of markDiffBetweenMatrices, over other.Matrix
markOther(m, other, i, signs) ==
    IF i > Len(other) THEN signs
    ELSE IF other[i].Service = << "rpc.statd" >>
    THEN markOther(m, other, i + 1, signs)
    ELSE IF ~Contains(m, other[i])
    THEN markOther(m, other, i + 1, MapPut(signs, String(other[i]), -1))
    ELSE markOther(m, other, i + 1, signs)

\* m.markDiffBetweenMatrices(other), both given by the elements they show
markDiffBetweenMatrices(m, other) ==
    markOther(m, other, 1, markOwn(m, other, 1, EmptyMap))

FormatJSON == "json"
FormatYAML == "yaml"
FormatCSV == "csv"
FormatNFT == "nft"

\* the struct tags of ComDetails, in field order
Tags(fmt) ==
    IF fmt = FormatCSV
    THEN << "Direction", "Protocol", "Port", "Namespace", "Service", "Pod",
            "Container", "Node Role", "Optional" >>
    ELSE IF fmt \in { FormatJSON, FormatYAML }
    THEN << "direction", "protocol", "port", "namespace", "service", "pod",
            "container", "nodeRole", "optional" >>
    ELSE << "", "", "", "", "", "", "", "", "" >>

RECURSIVE Join(_, _)
\* strings.Join
Join(list, sep) ==
    IF list = <<>> THEN <<>>
    ELSE IF Len(list) = 1 THEN << list[1] >>
    ELSE << list[1], sep >> \o Join(Tail(list), sep)

getComMatrixHeadersByFormat(fmt) ==
    IF \E i \in 1..Len(Tags(fmt)) : Tags(fmt)[i] = ""
    THEN [ err |-> "no tag", colNames |-> <<>> ]
    ELSE [ err |-> "nil", colNames |-> Join(Tags(fmt), ",") ]

\* one line of the diff for cd
diffLine(signs, cd) ==
    LET s == MapGet(signs, String(cd))
    IN IF s = 1 THEN << "+", " " >> \o String(cd)
       ELSE IF s = -1 THEN << "-", " " >> \o String(cd)
       ELSE String(cd)

\* m.GenerateMatrixDiff(other): the lines of the diff, and m as the call
\* leaves it
GenerateMatrixDiff(m, other) ==
    LET c == combine(m, other)
        signs == markDiffBetweenMatrices(View(c.m), View(other))
        hdr == getComMatrixHeadersByFormat(FormatCSV)
        united == View(c.combined)
    IN [ err |-> hdr.err,
         diff |-> IF hdr.err # "nil" THEN <<>>
                  ELSE << hdr.colNames >>
                       \o [ i \in 1..Len(united) |-> diffLine(signs, united[i]) ],
         m |-> c.m ]

\* m.Diff(other)
Diff(m, other) ==
    SelectSeq(m, LAMBDA cd1 : ~(\E i \in 1..Len(other) : Equals(cd1, other[i])))

(* --------------------------- Role Partitioner ------------------------- *)

\* a partition that sends every record that is not a master's to the worker
\* matrix
SeparateAllOthersToWorker(m) ==
    [ master |-> SelectSeq(m, LAMBDA e : e.NodeRole = master),
      worker |-> SelectSeq(m, LAMBDA e : e.NodeRole # master) ]

\* m.SeparateMatrixByRole()
SeparateMatrixByRole(m) ==
    [ master |-> SelectSeq(m, LAMBDA e : e.NodeRole = master),
      worker |-> SelectSeq(m, LAMBDA e : e.NodeRole # master /\ e.NodeRole = worker) ]

(* ------------------------------ Exporters ----------------------------- *)

SNO == 0
MNO == 1

\* the ports of the records of one protocol, in matrix order
PortsOf(m, proto) ==
    LET sel == SelectSeq(m, LAMBDA line : line.Protocol = proto)
    IN [ i \in 1..Len(sel) |-> FormatInt(sel[i].Port) ]

\* m.ToNFTables(): the rule text is fixed but for the two port lists
ToNFTables(m) ==
    [ err |-> "nil",
      data |-> [ kind |-> "nft",
                 tcp |-> Join(PortsOf(m, TCP), ", "),
                 udp |-> Join(PortsOf(m, UDP), ", ") ] ]

\* m.ToJSON(), m.ToCSV(), m.ToYAML(): the matrix under the format's field
\* names; none of them fails on a matrix of ComDetails
ToJSON(m) == [ err |-> "nil", data |-> [ kind |-> "json", names |-> Tags(FormatJSON), rows |-> m ] ]
ToCSV(m) == [ err |-> "nil", data |-> [ kind |-> "csv", names |-> Tags(FormatCSV), rows |-> m ] ]
ToYAML(m) == [ err |-> "nil", data |-> [ kind |-> "yaml", names |-> Tags(FormatYAML), rows |-> m ] ]

\* a print whose default case renders JSON
printDefaultsToJSON(m, fmt) ==
    IF fmt = FormatCSV THEN ToCSV(m)
    ELSE IF fmt = FormatYAML THEN ToYAML(m)
    ELSE IF fmt = FormatNFT THEN ToNFTables(m)
    ELSE ToJSON(m)

\* m.print(format)
print(m, fmt) ==
    IF fmt = FormatJSON THEN ToJSON(m)
    ELSE IF fmt = FormatCSV THEN ToCSV(m)
    ELSE IF fmt = FormatYAML THEN ToYAML(m)
    ELSE IF fmt = FormatNFT THEN ToNFTables(m)
    ELSE [ err |-> "invalid format", data |-> <<>> ]

\* m.writeMatrixToFile(utilsHelpers, fileName, format, destDir); ok tells
\* whether utilsHelpers.WriteFile succeeds
writeMatrixToFile(m, fileName, fmt, destDir, ok) ==
    LET res == print(m, fmt)
        comMatrixFileName == << destDir, "/" >> \o fileName \o << ".", fmt >>
    IN IF res.err # "nil" THEN [ err |-> res.err, written |-> <<>> ]
       ELSE IF ok
       THEN [ err |-> "nil",
              written |-> << [ name |-> comMatrixFileName, data |-> res.data ] >> ]
       ELSE [ err |-> "write failed", written |-> <<>> ]

\* m.WriteMatrixToFileByType(utilsHelpers, fileNamePrefix, format, deployment,
\* destDir); ok1 and ok2 tell whether the first and second WriteFile succeed
WriteMatrixToFileByType(m, fileNamePrefix, fmt, depl, destDir, ok1, ok2) ==
    IF fmt = FormatNFT
    THEN LET parts == SeparateMatrixByRole(m)
             first == writeMatrixToFile(parts.master, << fileNamePrefix, "-master" >>,
                                        fmt, destDir, ok1)
             second == writeMatrixToFile(parts.worker, << fileNamePrefix, "-worker" >>,
                                         fmt, destDir, ok2)
         IN IF first.err # "nil" THEN first
            ELSE IF depl = MNO
            THEN [ err |-> second.err, written |-> first.written \o second.written ]
            ELSE first
    ELSE writeMatrixToFile(m, << fileNamePrefix >>, fmt, destDir, ok1)

(* ------------------------------ GetNodeRole --------------------------- *)

\* consts.RoleLabel
RoleLabel == << "node-role.kubernetes.io", "/" >>

\* strings.HasPrefix
HasPrefix(s, prefix) ==
    Len(s) >= Len(prefix) /\ SubSeq(s, 1, Len(prefix)) = prefix

\* strings.TrimPrefix
TrimPrefix(s, prefix) ==
    IF HasPrefix(s, prefix) THEN SubSeq(s, Len(prefix) + 1, Len(s)) ELSE s

\* a resolution that tests the worker label ahead of the master labels
GetNodeRoleWorkerFirst(nodeLabels) ==
    IF RoleLabel \o << "worker" >> \in nodeLabels
    THEN { [ role |-> << "worker" >>, err |-> "nil" ] }
    ELSE IF \/ RoleLabel \o << "master" >> \in nodeLabels
            \/ RoleLabel \o << "control-plane" >> \in nodeLabels
    THEN { [ role |-> << "master" >>, err |-> "nil" ] }
    ELSE IF \E label \in nodeLabels : HasPrefix(label, RoleLabel)
    THEN { [ role |-> TrimPrefix(label, RoleLabel), err |-> "nil" ] :
             label \in { l \in nodeLabels : HasPrefix(l, RoleLabel) } }
    ELSE { [ role |-> <<>>, err |-> "unable to determine role" ] }

\* GetNodeRole(node): every result the call can return; the range over the
\* label map visits the labels in an order that varies from call to call
GetNodeRole(nodeLabels) ==
    IF RoleLabel \o << "master" >> \in nodeLabels
    THEN { [ role |-> << "master" >>, err |-> "nil" ] }
    ELSE IF RoleLabel \o << "control-plane" >> \in nodeLabels
    THEN { [ role |-> << "master" >>, err |-> "nil" ] }
    ELSE IF RoleLabel \o << "worker" >> \in nodeLabels
    THEN { [ role |-> << "worker" >>, err |-> "nil" ] }
    ELSE IF \E label \in nodeLabels : HasPrefix(label, RoleLabel)
    THEN { [ role |-> TrimPrefix(label, RoleLabel), err |-> "nil" ] :
             label \in { l \in nodeLabels : HasPrefix(l, RoleLabel) } }
    ELSE { [ role |-> <<>>, err |-> "unable to determine role" ] }

\* the labels a node's label map is drawn from
Labels ==
    { RoleLabel \o << "master" >>,
      RoleLabel \o << "control-plane" >>,
      RoleLabel \o << "worker" >>,
      RoleLabel \o << "infra" >>,
      RoleLabel \o << "arbiter" >>,
      RoleLabel,
      << "node-role.kubernetes.io" >>,
      << "kubernetes.io", "/", "hostname" >> }

(* ------------------------------ operations ---------------------------- *)

\* what the matrices show before a call
Snapshot == [ A |-> View(mA), B |-> View(mB) ]

CallCleanComDetails ==
    /\ mA' = CleanComDetails(mA)
    /\ op' = "CleanComDetails"
    /\ pre' = Snapshot
    /\ out' = <<>>
    /\ UNCHANGED << mB, format, deployment, files, labels >>

CallSeparateMatrixByRole ==
    /\ out' = SeparateMatrixByRole(View(mA))
    /\ op' = "SeparateMatrixByRole"
    /\ pre' = Snapshot
    /\ UNCHANGED << mA, mB, format, deployment, files, labels >>

CallEquals ==
    \E i, j \in 1..mA.len :
        /\ out' = [ cd |-> View(mA)[i], other |-> View(mA)[j],
                    res |-> Equals(View(mA)[i], View(mA)[j]) ]
        /\ op' = "Equals"
        /\ pre' = Snapshot
        /\ UNCHANGED << mA, mB, format, deployment, files, labels >>

CallContains ==
    \E cd \in Records :
        /\ out' = [ cd |-> cd, res |-> Contains(View(mA), cd) ]
        /\ op' = "Contains"
        /\ pre' = Snapshot
        /\ UNCHANGED << mA, mB, format, deployment, files, labels >>

CallCombine ==
    LET c == combine(mA, mB)
    IN /\ mA' = c.m
       /\ out' = [ combined |-> View(c.combined) ]
       /\ op' = "combine"
       /\ pre' = Snapshot
       /\ UNCHANGED << mB, format, deployment, files, labels >>

CallGenerateMatrixDiff ==
    LET r == GenerateMatrixDiff(mA, mB)
    IN /\ mA' = r.m
       /\ out' = [ err |-> r.err, diff |-> r.diff ]
       /\ op' = "GenerateMatrixDiff"
       /\ pre' = Snapshot
       /\ UNCHANGED << mB, format, deployment, files, labels >>

CallDiff ==
    /\ out' = [ diff |-> Diff(View(mA), View(mB)) ]
    /\ op' = "Diff"
    /\ pre' = Snapshot
    /\ UNCHANGED << mA, mB, format, deployment, files, labels >>

CallPrint ==
    /\ out' = print(View(mA), format)
    /\ op' = "print"
    /\ pre' = Snapshot
    /\ files' = <<>>
    /\ UNCHANGED << mA, mB, format, deployment, labels >>

\* files holds what the call wrote, in the order written
CallWriteMatrixToFileByType ==
    \E ok1, ok2 \in BOOLEAN :
        LET r == WriteMatrixToFileByType(View(mA), "communication-matrix", format,
                                         deployment, "dest", ok1, ok2)
        IN /\ out' = [ err |-> r.err ]
           /\ files' = r.written
           /\ op' = "WriteMatrixToFileByType"
           /\ pre' = Snapshot
           /\ UNCHANGED << mA, mB, format, deployment, labels >>

CallGetNodeRole ==
    \E r \in GetNodeRole(labels) :
        /\ out' = r
        /\ op' = "GetNodeRole"
        /\ UNCHANGED << mA, mB, pre, format, deployment, files, labels >>

(* ---------------------------- specifications -------------------------- *)

NoMatrix == MakeSlice(<<>>, 0)

InitCall ==
    /\ op = "init"
    /\ pre = [ A |-> <<>>, B |-> <<>> ]
    /\ out = <<>>
    /\ files = <<>>

\* one matrix, as commatrix.New builds it
Init ==
    /\ mA \in { MakeSlice(s, 0) : s \in SeqsUpTo(Records, MaxLen) }
    /\ mB = NoMatrix
    /\ format = ""
    /\ deployment = SNO
    /\ labels = {}
    /\ InitCall

Next ==
    \/ CallCleanComDetails
    \/ CallSeparateMatrixByRole
    \/ CallEquals
    \/ CallContains

Spec == Init /\ [][Next]_vars

\* two matrices; the receiver's slice may have spare capacity
InitDiff ==
    /\ mA \in { MakeSlice(s, k) : s \in SeqsUpTo(Records, MaxLenPair), k \in 0..MaxSlack }
    /\ mB \in { MakeSlice(s, 0) : s \in SeqsUpTo(Records, MaxLenPair) }
    /\ format = ""
    /\ deployment = SNO
    /\ labels = {}
    /\ InitCall

NextDiff ==
    \/ CallCleanComDetails
    \/ CallCombine
    \/ CallGenerateMatrixDiff
    \/ CallDiff

SpecDiff == InitDiff /\ [][NextDiff]_vars

\* the format tags a caller may pass
FormatTags == { FormatJSON, FormatYAML, FormatCSV, FormatNFT, "nft-firewall", "xml", "" }

InitExport ==
    /\ mA \in { MakeSlice(s, 0) : s \in SeqsUpTo(Records, MaxLenExport) }
    /\ mB = NoMatrix
    /\ format \in FormatTags
    /\ deployment \in { SNO, MNO }
    /\ labels = {}
    /\ InitCall

NextExport ==
    \/ CallPrint
    \/ CallWriteMatrixToFileByType

SpecExport == InitExport /\ [][NextExport]_vars

InitRole ==
    /\ mA = NoMatrix
    /\ mB = NoMatrix
    /\ format = ""
    /\ deployment = SNO
    /\ labels \in SUBSET Labels
    /\ InitCall

NextRole == CallGetNodeRole

SpecRole == InitRole /\ [][NextRole]_vars

(* -------------------------------- claims ------------------------------ *)

\* a and b may stand in this order: ascending by (nodeRole, protocol, port),
\* the first two compared as strings, the port as a number
InOrder(a, b) ==
    \/ CompareString(a.NodeRole, b.NodeRole) < 0
    \/ /\ a.NodeRole = b.NodeRole
       /\ \/ CompareString(a.Protocol, b.Protocol) < 0
          \/ a.Protocol = b.Protocol /\ a.Port <= b.Port

Sorted(s) == \A i \in 1..(Len(s) - 1) : InOrder(s[i], s[i + 1])

\* some record of s has the identity of cd
HasIdentity(s, cd) == \E i \in 1..Len(s) : EqualsFields(s[i], cd)

Occurs(s, cd) == \E i \in 1..Len(s) : s[i] = cd

\* C1: combine(A, B) holds every record of A and every record of B whose
\* identity (nodeRole, port, protocol) is not in A, and nothing else; it is
\* sorted by (nodeRole, protocol, port) and no two of its records share an
\* identity.
C1_CombineContract ==
    op = "combine" =>
        LET C == out.combined
        IN /\ \A i \in 1..Len(pre.A) : Occurs(C, pre.A[i])
           /\ \A i \in 1..Len(pre.B) :
                  ~HasIdentity(pre.A, pre.B[i]) => Occurs(C, pre.B[i])
           /\ \A j \in 1..Len(C) :
                  \/ Occurs(pre.A, C[j])
                  \/ Occurs(pre.B, C[j]) /\ ~HasIdentity(pre.A, C[j])
           /\ Sorted(C)
           /\ \A i, j \in 1..Len(C) : i # j => ~EqualsFields(C[i], C[j])

\* C2: GenerateMatrixDiff is read-only: after the call both matrices show
\* the records they showed before it, in the same order.
C2_DiffReadOnly ==
    op = "GenerateMatrixDiff" => View(mA) = pre.A /\ View(mB) = pre.B

\* the line the diff owes to record cd of the combined matrix
OwedLine(cd) ==
    IF HasIdentity(pre.A, cd) /\ ~HasIdentity(pre.B, cd)
    THEN << "+", " " >> \o String(cd)
    ELSE IF ~HasIdentity(pre.A, cd) /\ HasIdentity(pre.B, cd)
    THEN << "-", " " >> \o String(cd)
    ELSE String(cd)

\* C3: the diff has, after the header, one line per record of Combine(A, B)
\* in sort order; a record is marked + when its identity is in A only, - when
\* it is in B only, and is unmarked exactly when it is in both.
C3_DiffComplete ==
    op = "GenerateMatrixDiff" =>
        LET U == View(combine(MakeSlice(pre.A, 0), MakeSlice(pre.B, 0)).combined)
        IN /\ Len(out.diff) = Len(U) + 1
           /\ \A i \in 1..Len(U) : out.diff[i + 1] = OwedLine(U[i])

\* C4: CleanComDetails keeps, for every identity occurring in the matrix,
\* exactly one record: the first of that identity in the input, unchanged.
C4_DedupeFirstWins ==
    op = "CleanComDetails" =>
        \A i \in 1..Len(pre.A) :
            LET first == CHOOSE k \in 1..i :
                             /\ EqualsFields(pre.A[k], pre.A[i])
                             /\ \A l \in 1..(k - 1) : ~EqualsFields(pre.A[l], pre.A[i])
                kept == { j \in 1..mA.len : EqualsFields(View(mA)[j], pre.A[i]) }
            IN /\ Cardinality(kept) = 1
               /\ \A j \in kept : View(mA)[j] = pre.A[first]

\* C5: after CleanComDetails every two consecutive records are in ascending
\* order by (nodeRole, protocol, port), and a second CleanComDetails yields
\* the same sequence.
C5_SortedIdempotent ==
    op = "CleanComDetails" =>
        /\ Sorted(View(mA))
        /\ View(CleanComDetails(mA)) = View(mA)

\* a cleaned matrix of three records, reordered by the call, with a protocol
\* boundary and a port boundary inside one role
C5_Witness ==
    /\ op = "CleanComDetails"
    /\ mA.len = 3
    /\ View(mA) # pre.A
    /\ \E i \in 1..2 :
           /\ View(mA)[i].NodeRole = View(mA)[i + 1].NodeRole
           /\ View(mA)[i].Protocol # View(mA)[i + 1].Protocol
    /\ \E i \in 1..2 :
           /\ View(mA)[i].NodeRole = View(mA)[i + 1].NodeRole
           /\ View(mA)[i].Protocol = View(mA)[i + 1].Protocol
           /\ View(mA)[i].Port < View(mA)[i + 1].Port

\* the identities of the records of s
Identities(s) == { << s[i].NodeRole, s[i].Port, s[i].Protocol >> : i \in 1..Len(s) }

\* C6: Equals, Contains and dedupe treat two records as the same flow
\* exactly when nodeRole, port and protocol are all equal.
C6_IdentityIsTheTriple ==
    /\ op = "Equals" => (out.res <=> EqualsFields(out.cd, out.other))
    /\ op = "Contains" => (out.res <=> HasIdentity(pre.A, out.cd))
    /\ op = "CleanComDetails" => mA.len = Cardinality(Identities(pre.A))

\* C7: SeparateMatrixByRole puts in the master matrix exactly the records of
\* role "master" and in the worker matrix exactly those of role "worker",
\* each in the input's order and unchanged; other roles are in neither.
C7_Partition ==
    op = "SeparateMatrixByRole" =>
        /\ out.master = SelectSeq(pre.A, LAMBDA cd : cd.NodeRole = master)
        /\ out.worker = SelectSeq(pre.A, LAMBDA cd : cd.NodeRole = worker)

\* a three-record matrix of a master, a worker and another role
C7_Witness ==
    /\ op = "SeparateMatrixByRole"
    /\ Len(pre.A) = 3
    /\ Len(out.master) = 1
    /\ Len(out.worker) = 1
    /\ \E i \in 1..3 : pre.A[i].NodeRole \notin { master, worker }

\* the call is an export
Exported == op \in { "print", "WriteMatrixToFileByType" }

\* C8, as stated: the export fails with the unsupported-format error exactly
\* for the tags outside {csv, json, yaml, nft-firewall}, and then writes no
\* file and leaves the matrix as it was.
C8_ClosedSetAsStated ==
    Exported =>
        /\ out.err = "invalid format"
               <=> format \notin { "csv", "json", "yaml", "nft-firewall" }
        /\ out.err = "invalid format" => files = <<>> /\ View(mA) = pre.A

\* C8, amended: the export fails with the unsupported-format error exactly
\* for the tags outside {csv, json, yaml, nft}, and then writes no file and
\* leaves the matrix as it was.
C8_ClosedSet ==
    Exported =>
        /\ out.err = "invalid format"
               <=> format \notin { "csv", "json", "yaml", "nft" }
        /\ out.err = "invalid format" => files = <<>> /\ View(mA) = pre.A

\* an export of a non-empty matrix refused for its tag
C8_Witness ==
    /\ op = "WriteMatrixToFileByType"
    /\ format = "nft-firewall"
    /\ mA.len > 0
    /\ out.err = "invalid format"
    /\ files = <<>>

\* the file an nft export owes to one role
RoleFile(suffix, m) ==
    [ name |-> << "dest", "/", "communication-matrix", suffix, ".", format >>,
      data |-> ToNFTables(m).data ]

\* C9: an nft export writes the master file first and, for a multi-node
\* deployment only, the worker file after it; it either writes all its files
\* or returns an error having written none.
C9_RoleFilesAllOrNone ==
    (op = "WriteMatrixToFileByType" /\ format = FormatNFT) =>
        LET masterFile == RoleFile("-master",
                                   SelectSeq(pre.A, LAMBDA cd : cd.NodeRole = master))
            workerFile == RoleFile("-worker",
                                   SelectSeq(pre.A, LAMBDA cd : cd.NodeRole = worker))
        IN IF out.err = "nil"
           THEN files = IF deployment = MNO THEN << masterFile, workerFile >>
                        ELSE << masterFile >>
           ELSE files = <<>>

\* the labels that carry the role prefix
RoleLabels == { l \in labels : HasPrefix(l, RoleLabel) }

\* C10: GetNodeRole returns master for prefix+master, else master for
\* prefix+control-plane, else worker for prefix+worker, else the suffix of a
\* label that starts with the prefix; it fails exactly when no label starts
\* with the prefix; with a standard label present, or at most one label
\* carrying the prefix, the labels determine the result.
C10_RolePrecedence ==
    op = "GetNodeRole" =>
        /\ out.err # "nil" <=> RoleLabels = {}
        /\ IF RoleLabel \o << "master" >> \in labels
           THEN out.role = << "master" >>
           ELSE IF RoleLabel \o << "control-plane" >> \in labels
           THEN out.role = << "master" >>
           ELSE IF RoleLabel \o << "worker" >> \in labels
           THEN out.role = << "worker" >>
           ELSE IF RoleLabels # {}
           THEN \E l \in RoleLabels : l = RoleLabel \o out.role
           ELSE out.role = <<>>
        /\ ( /\ Cardinality(RoleLabels) = 1
              /\ RoleLabels \cap { RoleLabel \o << "master" >>,
                                   RoleLabel \o << "control-plane" >>,
                                   RoleLabel \o << "worker" >> } = {} )
               => \A l \in RoleLabels : l = RoleLabel \o out.role

\* the fallback picks one of two non-standard role labels, beside labels
\* that do not carry the prefix
C10_Witness ==
    /\ op = "GetNodeRole"
    /\ RoleLabels = { RoleLabel \o << "infra" >>, RoleLabel \o << "arbiter" >> }
    /\ labels # RoleLabels
    /\ out.role = << "arbiter" >>
    /\ out.err = "nil"

====
